---- MODULE Spec2Model ----
(***************************************************************************)
(* A model of github.com/virzz/systemd: the lifecycle operations of the     *)
(* Systemd type (Install, Remove, Start, Stop, Enable, Disable, Kill,       *)
(* Restart, Reload, Status) and the cobra verbs registered by Command.       *)
(*                                                                           *)
(* One process runs one operation at a time.  Everything the operation does  *)
(* that is visible outside it (connection attempts, manager calls, file-     *)
(* system calls, log lines, values received on the completion channel) is    *)
(* appended to `trace` in program order.  The service manager and the file   *)
(* system are the environment: a call is accepted or rejected, a job ends    *)
(* "done" or "failed", a file-system call may be refused.                    *)
(***************************************************************************)
EXTENDS Integers, Sequences, FiniteSets, TLC

\* ------------------------------------------------------------------ bounds
MaxNum == 3
MaxTags == 2
MaxUnits == 2

\* --------------------------------------------------------------- constants
Name == "svc"
TagSet == {"a", "b"}
\* make(chan string, 1)
ChanCap == 1
JobResults == {"done", "failed"}

SeqsUpTo(S, n) == UNION {[1..k -> S] : k \in 0..n}
TagLists == SeqsUpTo(TagSet, MaxTags)

\* strconv.Itoa for the non-negative numbers the loops produce
Digit(d) == CASE d = 0 -> "0" [] d = 1 -> "1" [] d = 2 -> "2" [] d = 3 -> "3"
              [] d = 4 -> "4" [] d = 5 -> "5" [] d = 6 -> "6" [] d = 7 -> "7"
              [] d = 8 -> "8" [] d = 9 -> "9"
RECURSIVE Itoa(_)
Itoa(n) == IF n < 10 THEN Digit(n) ELSE Itoa(n \div 10) \o Digit(n % 10)

\* ------------------------------------------------------------------- names
SystemDir == "/etc/systemd/system/"
WantsDir == "/etc/systemd/system/multi-user.target.wants/"

UnitFile(mutli) ==
    IF mutli THEN SystemDir \o Name \o "@.service"
    ELSE SystemDir \o Name \o ".service"

\* s.Name + "@" + tag + ".service"
InstanceUnit(tag) == Name \o "@" \o tag \o ".service"
\* s.Name + ".service"
BareUnit == Name \o ".service"
\* fmt.Sprintf("/etc/systemd/system/multi-user.target.wants/%s@%s.service", s.Name, tag)
WantsTarget(tag) == WantsDir \o Name \o "@" \o tag \o ".service"
WantsBare == WantsDir \o Name \o ".service"

UnitPaths == {UnitFile(FALSE), UnitFile(TRUE)}
WantsPaths == {WantsBare} \cup {WantsTarget(t) : t \in TagSet \cup {"default"}}
Paths == UnitPaths \cup WantsPaths

\* ------------------------------------------------------------------ events
Ev(k, a, b, c, id, ok) == [k |-> k, a |-> a, b |-> b, c |-> c, id |-> id, ok |-> ok]
EvConnect(ok) == Ev("connect", "NewSystemConnectionContext", "", "", 0, ok)
EvCall(m, u, ok) == Ev("call", m, u, "", 0, ok)
EvFs(f, p, o, ok) == Ev("fs", f, p, o, 0, ok)
EvLog(level, msg, subject) == Ev("log", level, subject, msg, 0, TRUE)
EvRecv(v, id) == Ev("recv", v, "", "", id, TRUE)

IsCall(e) == e.k = "call"
IsFs(e) == e.k = "fs"
IsConnect(e) == e.k = "connect"
IsLog(e) == e.k = "log"
IsRecv(e) == e.k = "recv"
Calls(t) == SelectSeq(t, IsCall)
FsOps(t) == SelectSeq(t, IsFs)
Connects(t) == SelectSeq(t, IsConnect)

VARIABLES
    fs,      \* the file system: path -> "absent" | "file" | "dir" | origin of a symlink
    cli,     \* the cobra command being executed, or NoCli for a library call
    op,      \* the frame of the operation being executed
    caller,  \* "Remove" while Stop runs on behalf of Remove, "" otherwise
    pc,      \* position of the process
    i,       \* loop index
    items,   \* the unit list Status returned
    name,    \* the unit of the call issued last
    trace,   \* what the process has done so far, in program order
    recv,    \* the completion channel
    jobs,    \* jobs the manager accepted and has not reported yet
    ret      \* value returned

vars == <<fs, cli, op, caller, pc, i, items, name, trace, recv, jobs, ret>>

NoCli == [verb |-> "", uid |-> "", gid |-> "", known |-> TRUE]
NoOp == [f |-> "", num |-> 0, flag |-> FALSE, tags |-> <<>>]
Frame(f, num, flag, tags) == [f |-> f, num |-> num, flag |-> flag, tags |-> tags]

\* --------------------------------------------------------- the file system
\* os.Stat(name) followed by !fi.IsDir(); Stat follows a symlink
Resolve(f, p) == IF f[p] \in Paths THEN f[f[p]] ELSE f[p]
fileExists(f, p) == Resolve(f, p) # "absent" /\ Resolve(f, p) # "dir"

\* os.Remove(p): fails when nothing is there; `allowed` is the environment's
\* answer otherwise (permissions, a directory that is not empty)
RemoveOk(f, p, allowed) == f[p] # "absent" /\ allowed
RemoveFs(f, p, allowed) == IF RemoveOk(f, p, allowed) THEN [f EXCEPT ![p] = "absent"] ELSE f

\* os.Symlink(origin, target): fails when the target name is taken
SymlinkOk(f, target, allowed) == f[target] = "absent" /\ allowed
SymlinkFs(f, origin, target, allowed) ==
    IF SymlinkOk(f, target, allowed) THEN [f EXCEPT ![target] = origin] ELSE f

\* os.WriteFile(p, buf, 0644): creates or truncates; fails on a directory
WriteFileOk(f, p, allowed) == f[p] \in {"absent", "file"} /\ allowed
WriteFileFs(f, p, allowed) == IF WriteFileOk(f, p, allowed) THEN [f EXCEPT ![p] = "file"] ELSE f

\* --------------------------------------------------------------- the manager
\* conn.ListUnitsByPatternsContext(ctx, nil, []string{s.Name + "*"}): the loaded
\* units whose name matches, the bare unit first, then the numbered instances
ListedUnits(n) == [k \in 1..n |-> IF k = 1 THEN BareUnit ELSE InstanceUnit(Itoa(k - 1))]

\* ------------------------------------------------------------ control flow
Goto(p) == pc' = p /\ UNCHANGED <<ret, op, caller>>

\* `return v`: to the caller of the library, or back into Remove
Return(v) ==
    /\ ret' = v
    /\ IF caller = "Remove"
       THEN pc' = "Remove_files" /\ caller' = "" /\ op' = Frame("Remove", 0, FALSE, <<>>)
       ELSE pc' = "done" /\ UNCHANGED <<op, caller>>

\* One iteration of `for ... { _, err = conn.<method>(ctx, unit, "fail", recv) ... }`
\* up to the receive.  onReject says what the code does with err != nil:
\*   "continue": Warn, next iteration;  "return": return err;
\*   "wait": Warn, then fall through to v := <-recv
LoopCall(method, unit, accepted, loopPc, recvPc, onReject) ==
    /\ name' = unit
    /\ IF accepted
       THEN /\ trace' = Append(trace, EvCall(method, unit, TRUE))
            /\ jobs' = jobs \cup {Len(trace) + 1}
            /\ Goto(recvPc)
            /\ UNCHANGED i
       ELSE /\ UNCHANGED jobs
            /\ CASE onReject = "continue" ->
                      /\ trace' = trace \o <<EvCall(method, unit, FALSE), EvLog("Warn", "err", unit)>>
                      /\ i' = i + 1
                      /\ Goto(loopPc)
                 [] onReject = "return" ->
                      /\ trace' = Append(trace, EvCall(method, unit, FALSE))
                      /\ Return("ErrCall")
                      /\ UNCHANGED i
                 [] onReject = "wait" ->
                      /\ trace' = trace \o <<EvCall(method, unit, FALSE), EvLog("Warn", "err", unit)>>
                      /\ Goto(recvPc)
                      /\ UNCHANGED i
    /\ UNCHANGED <<fs, cli, items, recv>>

\* v := <-recv; if v == "failed" { Error } else { Info }; then pc moves to nextPc
RecvLog(verb, nextPc) ==
    /\ Len(recv) > 0
    /\ trace' = trace \o <<EvRecv(Head(recv).v, Head(recv).id),
                           EvLog(IF Head(recv).v = "failed" THEN "Error" ELSE "Info", verb, name)>>
    /\ recv' = Tail(recv)
    /\ IF nextPc = "return" THEN Return("nil") /\ UNCHANGED i
       ELSE Goto(nextPc) /\ i' = i + 1
    /\ UNCHANGED <<fs, cli, items, name, jobs>>

\* The branch that is neither a count/all nor a tag list: the bare unit, then the
\* @default instance when the bare call is rejected
BareCall(method, accepted1, accepted2, recvPc) ==
    /\ IF accepted1
       THEN /\ trace' = Append(trace, EvCall(method, BareUnit, TRUE))
            /\ name' = BareUnit
            /\ jobs' = jobs \cup {Len(trace) + 1}
            /\ Goto(recvPc)
       ELSE IF accepted2
       THEN /\ trace' = trace \o <<EvCall(method, BareUnit, FALSE),
                                   EvCall(method, InstanceUnit("default"), TRUE)>>
            /\ name' = InstanceUnit("default")
            /\ jobs' = jobs \cup {Len(trace) + 2}
            /\ Goto(recvPc)
       ELSE /\ trace' = trace \o <<EvCall(method, BareUnit, FALSE),
                                   EvCall(method, InstanceUnit("default"), FALSE)>>
            /\ name' = InstanceUnit("default")
            /\ Return("ErrCall")
            /\ UNCHANGED jobs
    /\ UNCHANGED <<fs, cli, i, items, recv>>

\* Status(show): its own connection, the listing, one log line per unit when show
\* `running` are the positions of the units whose SubState is "running"
RECURSIVE StatusLogs(_, _, _)
StatusLogs(its, running, k) ==
    IF k > Len(its) THEN <<>>
    ELSE <<EvLog(IF k \in running THEN "Info" ELSE "Warn", "Status", its[k])>>
         \o StatusLogs(its, running, k + 1)
StatusTrace(show, connOk, listOk, its, running) ==
    IF ~connOk THEN <<EvConnect(FALSE)>>
    ELSE IF ~listOk THEN <<EvConnect(TRUE), EvCall("ListUnitsByPatterns", Name \o "*", FALSE)>>
    ELSE <<EvConnect(TRUE), EvCall("ListUnitsByPatterns", Name \o "*", TRUE)>>
         \o (IF show THEN StatusLogs(its, running, 1) ELSE <<>>)
StatusErr(connOk, listOk) ==
    IF ~connOk THEN "ErrConnect" ELSE IF ~listOk THEN "ErrList" ELSE "nil"

\* items, err := s.Status(false); if err != nil { return err }
StatusOr(connOk, listOk, n, nextPc) ==
    /\ trace' = trace \o StatusTrace(FALSE, connOk, listOk, ListedUnits(n), {})
    /\ IF StatusErr(connOk, listOk) = "nil"
       THEN items' = ListedUnits(n) /\ i' = 1 /\ Goto(nextPc)
       ELSE Return(StatusErr(connOk, listOk)) /\ UNCHANGED <<items, i>>
    /\ UNCHANGED <<fs, cli, name, recv, jobs>>

\* The manager reports the end of a job on the channel the call registered
Deliver(v) ==
    /\ jobs # {}
    /\ Len(recv) < ChanCap
    /\ \E id \in jobs :
         /\ recv' = Append(recv, [id |-> id, v |-> v])
         /\ jobs' = jobs \ {id}
    /\ UNCHANGED <<fs, cli, op, caller, pc, i, items, name, trace, ret>>

\* ------------------------------------------------------------------- Start
\* StartConnect, the error of the connection attempt ignored
StartConnect_IgnoresError(ok) ==
    /\ pc = "Start"
    /\ trace' = Append(trace, EvConnect(ok))
    /\ Goto(IF op.num > 0 THEN "Start_num"
            ELSE IF Len(op.tags) > 0 THEN "Start_tags" ELSE "Start_bare")
    /\ i' = 1
    /\ recv' = <<>>
    /\ UNCHANGED <<fs, cli, items, name, jobs>>

StartConnect(ok) ==
    /\ pc = "Start"
    /\ trace' = Append(trace, EvConnect(ok))
    /\ IF ok
       THEN Goto(IF op.num > 0 THEN "Start_num"
                 ELSE IF Len(op.tags) > 0 THEN "Start_tags" ELSE "Start_bare")
       ELSE Return("ErrConnect")
    /\ i' = 1
    /\ recv' = <<>>
    /\ UNCHANGED <<fs, cli, items, name, jobs>>

\* StartNumCall, the instances numbered from 0
StartNumCall_FromZero(accepted) ==
    /\ pc = "Start_num"
    /\ i <= op.num
    /\ LoopCall("StartUnit", InstanceUnit(Itoa(i - 1)), accepted, "Start_num", "Start_num_recv", "continue")

StartNumCall(accepted) ==
    /\ pc = "Start_num"
    /\ i <= op.num
    /\ LoopCall("StartUnit", InstanceUnit(Itoa(i)), accepted, "Start_num", "Start_num_recv", "continue")

StartNumRecv ==
    /\ pc = "Start_num_recv"
    /\ RecvLog("Started", "Start_num")

StartTagsCall(accepted) ==
    /\ pc = "Start_tags"
    /\ i <= Len(op.tags)
    /\ LoopCall("StartUnit", InstanceUnit(op.tags[i]), accepted, "Start_tags", "Start_tags_recv", "continue")

StartTagsRecv ==
    /\ pc = "Start_tags_recv"
    /\ RecvLog("Started", "Start_tags")

StartBareCall(accepted1, accepted2) ==
    /\ pc = "Start_bare"
    /\ BareCall("StartUnit", accepted1, accepted2, "Start_bare_recv")

StartBareRecv ==
    /\ pc = "Start_bare_recv"
    /\ RecvLog("Started", "return")

\* the loops are over: return nil
StartReturn ==
    /\ \/ pc = "Start_num" /\ i > op.num
       \/ pc = "Start_tags" /\ i > Len(op.tags)
    /\ Return("nil")
    /\ UNCHANGED <<fs, cli, i, items, name, trace, recv, jobs>>

\* --------------------------------------------------------------------- Stop
StopConnect(ok) ==
    /\ pc = "Stop"
    /\ trace' = Append(trace, EvConnect(ok))
    /\ IF ok
       THEN Goto(IF op.flag THEN "Stop_all_status"
                 ELSE IF Len(op.tags) > 0 THEN "Stop_tags" ELSE "Stop_bare")
       ELSE Return("ErrConnect")
    /\ i' = 1
    /\ recv' = <<>>
    /\ UNCHANGED <<fs, cli, items, name, jobs>>

StopAllStatus(connOk, listOk, n) ==
    /\ pc = "Stop_all_status"
    /\ StatusOr(connOk, listOk, n, "Stop_all")

StopAllCall(accepted) ==
    /\ pc = "Stop_all"
    /\ i <= Len(items)
    /\ LoopCall("StopUnit", items[i], accepted, "Stop_all", "Stop_all_recv", "continue")

StopAllRecv ==
    /\ pc = "Stop_all_recv"
    /\ RecvLog("Stop", "Stop_all")

\* StopTagsCall, a rejected call returned to the caller
StopTagsCall_Returns(accepted) ==
    /\ pc = "Stop_tags"
    /\ i <= Len(op.tags)
    /\ LoopCall("StopUnit", InstanceUnit(op.tags[i]), accepted, "Stop_tags", "Stop_tags_recv", "return")

StopTagsCall(accepted) ==
    /\ pc = "Stop_tags"
    /\ i <= Len(op.tags)
    /\ LoopCall("StopUnit", InstanceUnit(op.tags[i]), accepted, "Stop_tags", "Stop_tags_recv", "continue")

StopTagsRecv ==
    /\ pc = "Stop_tags_recv"
    /\ RecvLog("Stop", "Stop_tags")

StopBareCall(accepted1, accepted2) ==
    /\ pc = "Stop_bare"
    /\ BareCall("StopUnit", accepted1, accepted2, "Stop_bare_recv")

StopBareRecv ==
    /\ pc = "Stop_bare_recv"
    /\ RecvLog("Stop", "return")

\* the loops are over: return nil
StopReturn ==
    /\ \/ pc = "Stop_all" /\ i > Len(items)
       \/ pc = "Stop_tags" /\ i > Len(op.tags)
    /\ Return("nil")
    /\ UNCHANGED <<fs, cli, i, items, name, trace, recv, jobs>>

\* ------------------------------------------------------------------ Restart
RestartConnect(ok) ==
    /\ pc = "Restart"
    /\ trace' = Append(trace, EvConnect(ok))
    /\ IF ok
       THEN Goto(IF op.flag THEN "Restart_all_status"
                 ELSE IF Len(op.tags) > 0 THEN "Restart_tags" ELSE "Restart_bare")
       ELSE Return("ErrConnect")
    /\ i' = 1
    /\ recv' = <<>>
    /\ UNCHANGED <<fs, cli, items, name, jobs>>

RestartAllStatus(connOk, listOk, n) ==
    /\ pc = "Restart_all_status"
    /\ StatusOr(connOk, listOk, n, "Restart_all")

\* RestartAllCall, the next unit called without the receive
RestartAllCall_NoWait(accepted) ==
    /\ pc = "Restart_all"
    /\ i <= Len(items)
    /\ name' = items[i]
    /\ trace' = IF accepted THEN Append(trace, EvCall("RestartUnit", items[i], TRUE))
                ELSE trace \o <<EvCall("RestartUnit", items[i], FALSE), EvLog("Warn", "err", items[i])>>
    /\ jobs' = IF accepted THEN jobs \cup {Len(trace) + 1} ELSE jobs
    /\ i' = i + 1
    /\ Goto("Restart_all")
    /\ UNCHANGED <<fs, cli, items, recv>>

RestartAllCall(accepted) ==
    /\ pc = "Restart_all"
    /\ i <= Len(items)
    /\ LoopCall("RestartUnit", items[i], accepted, "Restart_all", "Restart_all_recv", "continue")

RestartAllRecv ==
    /\ pc = "Restart_all_recv"
    /\ RecvLog("Restarted", "Restart_all")

RestartTagsCall(accepted) ==
    /\ pc = "Restart_tags"
    /\ i <= Len(op.tags)
    /\ LoopCall("RestartUnit", InstanceUnit(op.tags[i]), accepted, "Restart_tags", "Restart_tags_recv", "continue")

RestartTagsRecv ==
    /\ pc = "Restart_tags_recv"
    /\ RecvLog("Restarted", "Restart_tags")

RestartBareCall(accepted1, accepted2) ==
    /\ pc = "Restart_bare"
    /\ BareCall("RestartUnit", accepted1, accepted2, "Restart_bare_recv")

RestartBareRecv ==
    /\ pc = "Restart_bare_recv"
    /\ RecvLog("Restarted", "return")

\* the loops are over: return nil
RestartReturn ==
    /\ \/ pc = "Restart_all" /\ i > Len(items)
       \/ pc = "Restart_tags" /\ i > Len(op.tags)
    /\ Return("nil")
    /\ UNCHANGED <<fs, cli, i, items, name, trace, recv, jobs>>

\* ------------------------------------------------------------------- Reload
ReloadConnect(ok) ==
    /\ pc = "Reload"
    /\ trace' = trace \o <<EvLog("Info", "Reloading...", Name), EvConnect(ok)>>
    /\ IF ok
       THEN Goto(IF op.flag THEN "Reload_all_status"
                 ELSE IF Len(op.tags) > 0 THEN "Reload_tags" ELSE "Reload_bare")
       ELSE Return("ErrConnect")
    /\ i' = 1
    /\ recv' = <<>>
    /\ UNCHANGED <<fs, cli, items, name, jobs>>

ReloadAllStatus(connOk, listOk, n) ==
    /\ pc = "Reload_all_status"
    /\ StatusOr(connOk, listOk, n, "Reload_all")

\* ReloadAllCall, a rejected call logged and skipped as in Stop and Restart
ReloadAllCall_Continues(accepted) ==
    /\ pc = "Reload_all"
    /\ i <= Len(items)
    /\ LoopCall("ReloadOrRestartUnit", items[i], accepted, "Reload_all", "Reload_all_recv", "continue")

ReloadAllCall(accepted) ==
    /\ pc = "Reload_all"
    /\ i <= Len(items)
    /\ LoopCall("ReloadOrRestartUnit", items[i], accepted, "Reload_all", "Reload_all_recv", "return")

ReloadAllRecv ==
    /\ pc = "Reload_all_recv"
    /\ RecvLog("Reloaded", "Reload_all")

ReloadTagsCall(accepted) ==
    /\ pc = "Reload_tags"
    /\ i <= Len(op.tags)
    /\ LoopCall("ReloadOrRestartUnit", InstanceUnit(op.tags[i]), accepted, "Reload_tags", "Reload_tags_recv", "wait")

ReloadTagsRecv ==
    /\ pc = "Reload_tags_recv"
    /\ RecvLog("Reloaded", "Reload_tags")

ReloadBareCall(accepted1, accepted2) ==
    /\ pc = "Reload_bare"
    /\ BareCall("ReloadOrRestartUnit", accepted1, accepted2, "Reload_bare_recv")

ReloadBareRecv ==
    /\ pc = "Reload_bare_recv"
    /\ RecvLog("Reloaded", "return")

\* the loops are over: return nil
ReloadReturn ==
    /\ \/ pc = "Reload_all" /\ i > Len(items)
       \/ pc = "Reload_tags" /\ i > Len(op.tags)
    /\ Return("nil")
    /\ UNCHANGED <<fs, cli, i, items, name, trace, recv, jobs>>

\* -------------------------------------------------------------------- Kill
KillConnect(ok) ==
    /\ pc = "Kill"
    /\ trace' = Append(trace, EvConnect(ok))
    /\ IF ok
       THEN Goto(IF op.flag THEN "Kill_all_status"
                 ELSE IF Len(op.tags) > 0 THEN "Kill_tags" ELSE "Kill_bare")
       ELSE Return("ErrConnect")
    /\ UNCHANGED <<fs, cli, i, items, name, recv, jobs>>

KillAllStatus(connOk, listOk, n) ==
    /\ pc = "Kill_all_status"
    /\ StatusOr(connOk, listOk, n, "Kill_all")

\* conn.KillUnitContext(ctx, unit, 9) for each unit; the result is dropped
KillCalls(units, oks) == [k \in 1..Len(units) |-> EvCall("KillUnit", units[k], oks[k])]

KillAll(oks) ==
    /\ pc = "Kill_all"
    /\ trace' = trace \o KillCalls(items, oks)
    /\ Return("nil")
    /\ UNCHANGED <<fs, cli, i, items, name, recv, jobs>>

KillTags(oks) ==
    /\ pc = "Kill_tags"
    /\ trace' = trace \o KillCalls([k \in 1..Len(op.tags) |-> InstanceUnit(op.tags[k])], oks)
    /\ Return("nil")
    /\ UNCHANGED <<fs, cli, i, items, name, recv, jobs>>

KillBare(oks) ==
    /\ pc = "Kill_bare"
    /\ trace' = trace \o KillCalls(<<Name \o "default.service", Name \o "@default.service">>, oks)
    /\ Return("nil")
    /\ UNCHANGED <<fs, cli, i, items, name, recv, jobs>>

\* ------------------------------------------------------------------ Status
Status(connOk, listOk, n, running) ==
    /\ pc = "Status"
    /\ trace' = trace \o StatusTrace(op.flag, connOk, listOk, ListedUnits(n), running)
    /\ items' = IF StatusErr(connOk, listOk) = "nil" THEN ListedUnits(n) ELSE <<>>
    /\ Return(StatusErr(connOk, listOk))
    /\ UNCHANGED <<fs, cli, i, name, recv, jobs>>

\* ----------------------------------------------------------------- Install
\* CreateUnit(multi, name, description, execPath, args...): the unit text, or an error
CreateUnit(multi, ok) ==
    IF ok THEN [buf |-> IF multi THEN "template unit" ELSE "unit", err |-> "nil"]
    ELSE [buf |-> "", err |-> "ErrCreateUnit"]

InstallTrace(f, multi, exeOk, unitOk, allowed, connOk, reloadOk) ==
    <<EvLog("Info", "Install...", Name)>> \o
    IF ~exeOk THEN <<>>
    ELSE IF CreateUnit(multi, unitOk).err # "nil" THEN <<>>
    ELSE IF ~WriteFileOk(f, UnitFile(multi), allowed)
    THEN <<EvFs("WriteFile", UnitFile(multi), "", FALSE),
           EvLog("Error", "Failed to write unit file", UnitFile(multi))>>
    ELSE <<EvFs("WriteFile", UnitFile(multi), "", TRUE)>> \o
         (IF ~connOk THEN <<EvConnect(FALSE)>>
          ELSE <<EvConnect(TRUE), EvLog("Info", "Installed", Name),
                 EvCall("Reload", "", reloadOk)>>)

InstallErr(f, multi, exeOk, unitOk, allowed, connOk, reloadOk) ==
    IF ~exeOk THEN "ErrExecutable"
    ELSE IF CreateUnit(multi, unitOk).err # "nil" THEN CreateUnit(multi, unitOk).err
    ELSE IF ~WriteFileOk(f, UnitFile(multi), allowed) THEN "ErrWriteFile"
    ELSE IF ~connOk THEN "ErrConnect"
    ELSE IF ~reloadOk THEN "ErrReload"
    ELSE "nil"

Install(exeOk, unitOk, allowed, connOk, reloadOk) ==
    /\ pc = "Install"
    /\ trace' = trace \o InstallTrace(fs, op.flag, exeOk, unitOk, allowed, connOk, reloadOk)
    /\ fs' = IF exeOk /\ CreateUnit(op.flag, unitOk).err = "nil"
             THEN WriteFileFs(fs, UnitFile(op.flag), allowed) ELSE fs
    /\ Return(InstallErr(fs, op.flag, exeOk, unitOk, allowed, connOk, reloadOk))
    /\ UNCHANGED <<cli, i, items, name, recv, jobs>>

\* ------------------------------------------------------------------ Remove
\* s.logger.Info("Removing... "); err := s.Stop(true)
RemoveStop ==
    /\ pc = "Remove"
    /\ trace' = Append(trace, EvLog("Info", "Removing...", Name))
    /\ op' = Frame("Stop", 0, TRUE, <<>>)
    /\ caller' = "Remove"
    /\ pc' = "Stop"
    /\ UNCHANGED <<fs, cli, i, items, name, recv, jobs, ret>>

\* RemoveErr, an error as soon as one deletion fails
RemoveErr_AnyFailure(ok1, ok2) == IF ~(ok1 /\ ok2) THEN "remove failed" ELSE "nil"

\* if !slices.Contains(errs, nil) { return errors.New("remove failed") }; return nil
RemoveErr(ok1, ok2) == IF ~(ok1 \/ ok2) THEN "remove failed" ELSE "nil"

RemoveFiles(allowed1, allowed2) ==
    /\ pc = "Remove_files"
    /\ LET p1 == SystemDir \o Name \o ".service"
           p2 == SystemDir \o Name \o "@.service"
           ok1 == RemoveOk(fs, p1, allowed1)
           f1 == RemoveFs(fs, p1, allowed1)
           ok2 == RemoveOk(f1, p2, allowed2)
       IN /\ fs' = RemoveFs(f1, p2, allowed2)
          /\ trace' = trace
                \o (IF ret # "nil" THEN <<EvLog("Warn", "err", ret)>> ELSE <<>>)
                \o <<EvFs("Remove", p1, "", ok1), EvFs("Remove", p2, "", ok2)>>
                \o (IF RemoveErr(ok1, ok2) = "nil" THEN <<EvLog("Info", "Removed", Name)>> ELSE <<>>)
          /\ ret' = RemoveErr(ok1, ok2)
    /\ pc' = "done"
    /\ UNCHANGED <<cli, op, caller, i, items, name, recv, jobs>>

\* ------------------------------------------------------------------ Enable
\* EnableTags, without the default tag
EnableTags_NoDefault(tags) == tags

\* if len(tags) == 0 { tags = []string{"default"} }
EnableTags(tags) == IF Len(tags) = 0 THEN <<"default">> ELSE tags

\* for _, tag := range tags { err = os.Symlink(origin, _target); log }
RECURSIVE EnableLinks(_, _, _, _, _)
EnableLinks(f, origin, tags, allowed, k) ==
    IF k > Len(tags) THEN [fs |-> f, trace |-> <<>>]
    ELSE LET target == WantsTarget(tags[k])
             ok == SymlinkOk(f, target, allowed[k])
             rest == EnableLinks(SymlinkFs(f, origin, target, allowed[k]), origin, tags, allowed, k + 1)
         IN [fs |-> rest.fs,
             trace |-> <<EvFs("Symlink", target, origin, ok),
                         EvLog(IF ok THEN "Info" ELSE "Error",
                               IF ok THEN "Created symlink" ELSE "Failed to create symlink",
                               target)>> \o rest.trace]

EnableResult(f, tags, allowed) ==
    LET multi == SystemDir \o Name \o "@.service"
        single == SystemDir \o Name \o ".service"
        target == WantsDir \o Name \o ".service"
    IN IF fileExists(f, multi)
       THEN LET r == EnableLinks(f, multi, EnableTags(tags), allowed, 1)
            IN [fs |-> r.fs, err |-> "nil",
                trace |-> <<EvFs("Stat", multi, "", TRUE)>> \o r.trace]
       ELSE IF fileExists(f, single)
       THEN [fs |-> SymlinkFs(f, single, target, allowed[1]), err |-> "nil",
             trace |-> <<EvFs("Stat", multi, "", FALSE), EvFs("Stat", single, "", TRUE),
                         EvFs("Symlink", target, single, SymlinkOk(f, target, allowed[1])),
                         EvLog(IF SymlinkOk(f, target, allowed[1]) THEN "Info" ELSE "Error",
                               IF SymlinkOk(f, target, allowed[1])
                               THEN "Created symlink" ELSE "Failed to create symlink",
                               target)>>]
       ELSE [fs |-> f, err |-> "service is not installed",
             trace |-> <<EvFs("Stat", multi, "", FALSE), EvFs("Stat", single, "", FALSE)>>]

Enable(allowed) ==
    /\ pc = "Enable"
    /\ fs' = EnableResult(fs, op.tags, allowed).fs
    /\ trace' = trace \o EnableResult(fs, op.tags, allowed).trace
    /\ Return(EnableResult(fs, op.tags, allowed).err)
    /\ UNCHANGED <<cli, i, items, name, recv, jobs>>

\* ----------------------------------------------------------------- Disable
\* DisableTargets, the bare link forgotten
DisableTargets_DefaultOnly(tags) ==
    IF Len(tags) > 0 THEN [k \in 1..Len(tags) |-> WantsTarget(tags[k])]
    ELSE <<WantsDir \o Name \o "@default.service">>

\* the paths Disable removes, in order
DisableTargets(tags) ==
    IF Len(tags) > 0 THEN [k \in 1..Len(tags) |-> WantsTarget(tags[k])]
    ELSE <<WantsDir \o Name \o "@default.service", WantsDir \o Name \o ".service">>

\* err = os.Remove(target); if err != nil { log }
RECURSIVE DisableLinks(_, _, _, _, _)
DisableLinks(f, targets, allowed, level, k) ==
    IF k > Len(targets) THEN [fs |-> f, trace |-> <<>>]
    ELSE LET ok == RemoveOk(f, targets[k], allowed[k])
             rest == DisableLinks(RemoveFs(f, targets[k], allowed[k]), targets, allowed, level, k + 1)
         IN [fs |-> rest.fs,
             trace |-> <<EvFs("Remove", targets[k], "", ok)>>
                       \o (IF ok THEN <<>> ELSE <<EvLog(level, "Failed to remove symlink", targets[k])>>)
                       \o rest.trace]

Disable(allowed) ==
    /\ pc = "Disable"
    /\ LET r == DisableLinks(fs, DisableTargets(op.tags), allowed,
                             IF Len(op.tags) > 0 THEN "Error" ELSE "Warn", 1)
       IN fs' = r.fs /\ trace' = trace \o r.trace
    /\ Return("nil")
    /\ UNCHANGED <<cli, i, items, name, recv, jobs>>

\* --------------------------------------------------------------------- CLI
Verbs == {"install", "remove", "start", "stop", "enable", "disable",
          "restart", "kill", "reload", "status", "unit"}
Ids == {"0", "1000"}

\* HookedVerbs, the hidden verb left without the hook
HookedVerbs_UnitUnhooked == Verbs \ {"unit"}

\* the commands built with PersistentPreRunE: persistentPreRunE
HookedVerbs == {"install", "remove", "start", "stop", "enable", "disable",
                "restart", "kill", "reload", "status", "unit"}

\* user.Current(), then the uid/gid test
persistentPreRunE(u) ==
    IF ~u.known THEN "ErrUser"
    ELSE IF u.gid = "0" \/ u.uid = "0" THEN "nil"
    ELSE "root privileges required"

\* cobra executes the command: PersistentPreRunE first, RunE only when it returned nil
Command(verb, uid, gid, known) ==
    /\ pc = "idle"
    /\ cli' = [verb |-> verb, uid |-> uid, gid |-> gid, known |-> known]
    /\ pc' = "PersistentPreRunE"
    /\ UNCHANGED <<fs, op, caller, i, items, name, trace, recv, jobs, ret>>

PersistentPreRunE ==
    /\ pc = "PersistentPreRunE"
    /\ IF cli.verb \notin HookedVerbs \/ persistentPreRunE(cli) = "nil"
       THEN pc' = "RunE" /\ UNCHANGED ret
       ELSE pc' = "done" /\ ret' = persistentPreRunE(cli)
    /\ UNCHANGED <<fs, cli, op, caller, i, items, name, trace, recv, jobs>>

\* RunE calls the operation and returns what it returns
Enter(verb, frame) ==
    /\ pc = "RunE"
    /\ cli.verb = verb
    /\ op' = frame
    /\ pc' = frame.f
    /\ UNCHANGED <<fs, cli, caller, i, items, name, trace, recv, jobs, ret>>

installCmd(multi) == Enter("install", Frame("Install", 0, multi, <<>>))
removeCmd == Enter("remove", Frame("Remove", 0, FALSE, <<>>))
startCmd(num, args) == Enter("start", Frame("Start", num, FALSE, args))
stopCmd(all, args) == Enter("stop", Frame("Stop", 0, all, args))
enableCmd(args) == Enter("enable", Frame("Enable", 0, FALSE, args))
disableCmd(args) == Enter("disable", Frame("Disable", 0, FALSE, args))
restartCmd(all, args) == Enter("restart", Frame("Restart", 0, all, args))
killCmd(all, args) == Enter("kill", Frame("Kill", 0, all, args))
reloadCmd(all, args) == Enter("reload", Frame("Reload", 0, all, args))
statusCmd == Enter("status", Frame("Status", 0, TRUE, <<>>))

\* unit [-t] [-m]: print the generated unit text or the installed unit file
unitCmd(multi, template, exeOk, unitOk) ==
    /\ pc = "RunE"
    /\ cli.verb = "unit"
    /\ op' = Frame("unit", 0, multi, <<>>)
    /\ IF template
       THEN /\ trace' = IF exeOk /\ unitOk
                        THEN Append(trace, EvLog("Println", CreateUnit(multi, unitOk).buf, ""))
                        ELSE trace
            /\ ret' = IF ~exeOk THEN "ErrExecutable" ELSE CreateUnit(multi, unitOk).err
       ELSE /\ trace' = trace \o
                   <<EvLog("Info", "filepath", UnitFile(multi)),
                     EvFs("ReadFile", UnitFile(multi), "", Resolve(fs, UnitFile(multi)) = "file")>>
                   \o (IF Resolve(fs, UnitFile(multi)) = "file"
                       THEN <<EvLog("Println", "unit file", UnitFile(multi))>> ELSE <<>>)
            /\ ret' = IF Resolve(fs, UnitFile(multi)) = "file" THEN "nil" ELSE "ErrReadFile"
    /\ pc' = "done"
    /\ UNCHANGED <<fs, cli, caller, i, items, name, recv, jobs>>

\* A program that uses the library calls an operation directly
Frames ==
    {Frame("Start", n, FALSE, t) : n \in 0..MaxNum, t \in TagLists}
    \cup {Frame(f, 0, a, t) : f \in {"Stop", "Restart", "Reload", "Kill"}, a \in BOOLEAN, t \in TagLists}
    \cup {Frame(f, 0, FALSE, t) : f \in {"Enable", "Disable"}, t \in TagLists}
    \cup {Frame("Install", 0, m, <<>>) : m \in BOOLEAN}
    \cup {Frame("Status", 0, sh, <<>>) : sh \in BOOLEAN}
    \cup {Frame("Remove", 0, FALSE, <<>>)}

Call(frame) ==
    /\ pc = "idle"
    /\ op' = frame
    /\ pc' = frame.f
    /\ UNCHANGED <<fs, cli, caller, i, items, name, trace, recv, jobs, ret>>

\* ----------------------------------------------------------- specification
\* The file system the process finds: each unit path holds nothing, a file or a
\* directory; each wants path holds nothing or a link to its unit file
LinkOrigin(p) == IF p = WantsBare THEN UnitFile(FALSE) ELSE UnitFile(TRUE)
FileSystems ==
    {f \in [Paths -> {"absent", "file", "dir"} \cup UnitPaths] :
        /\ \A p \in UnitPaths : f[p] \in {"absent", "file", "dir"}
        /\ \A p \in WantsPaths : f[p] \in {"absent", LinkOrigin(p)}}

\* A host on which nothing is enabled yet
FreshFileSystems == {f \in FileSystems : \A p \in WantsPaths : f[p] = "absent"}

Start0(f) ==
    /\ fs = f
    /\ cli = NoCli
    /\ op = NoOp
    /\ caller = ""
    /\ pc = "idle"
    /\ i = 1
    /\ items = <<>>
    /\ name = ""
    /\ trace = <<>>
    /\ recv = <<>>
    /\ jobs = {}
    /\ ret = ""

Init == \E f \in FreshFileSystems : Start0(f)
FsInit == \E f \in FileSystems : Start0(f)

Bools(n) == [1..n -> BOOLEAN]

Operations ==
    \/ \E ok \in BOOLEAN : StartConnect(ok)
    \/ \E ok \in BOOLEAN : StartNumCall(ok)
    \/ StartNumRecv
    \/ \E ok \in BOOLEAN : StartTagsCall(ok)
    \/ StartTagsRecv
    \/ \E ok1, ok2 \in BOOLEAN : StartBareCall(ok1, ok2)
    \/ StartBareRecv
    \/ StartReturn
    \/ \E ok \in BOOLEAN : StopConnect(ok)
    \/ \E c, l \in BOOLEAN, n \in 0..MaxUnits : StopAllStatus(c, l, n)
    \/ \E ok \in BOOLEAN : StopAllCall(ok)
    \/ StopAllRecv
    \/ \E ok \in BOOLEAN : StopTagsCall(ok)
    \/ StopTagsRecv
    \/ \E ok1, ok2 \in BOOLEAN : StopBareCall(ok1, ok2)
    \/ StopBareRecv
    \/ StopReturn
    \/ \E ok \in BOOLEAN : RestartConnect(ok)
    \/ \E c, l \in BOOLEAN, n \in 0..MaxUnits : RestartAllStatus(c, l, n)
    \/ \E ok \in BOOLEAN : RestartAllCall(ok)
    \/ RestartAllRecv
    \/ \E ok \in BOOLEAN : RestartTagsCall(ok)
    \/ RestartTagsRecv
    \/ \E ok1, ok2 \in BOOLEAN : RestartBareCall(ok1, ok2)
    \/ RestartBareRecv
    \/ RestartReturn
    \/ \E ok \in BOOLEAN : ReloadConnect(ok)
    \/ \E c, l \in BOOLEAN, n \in 0..MaxUnits : ReloadAllStatus(c, l, n)
    \/ \E ok \in BOOLEAN : ReloadAllCall(ok)
    \/ ReloadAllRecv
    \/ \E ok \in BOOLEAN : ReloadTagsCall(ok)
    \/ ReloadTagsRecv
    \/ \E ok1, ok2 \in BOOLEAN : ReloadBareCall(ok1, ok2)
    \/ ReloadBareRecv
    \/ ReloadReturn
    \/ \E ok \in BOOLEAN : KillConnect(ok)
    \/ \E c, l \in BOOLEAN, n \in 0..MaxUnits : KillAllStatus(c, l, n)
    \/ \E oks \in Bools(Len(items)) : KillAll(oks)
    \/ \E oks \in Bools(Len(op.tags)) : KillTags(oks)
    \/ \E oks \in Bools(2) : KillBare(oks)
    \/ \E c, l \in BOOLEAN, n \in 0..MaxUnits : \E r \in SUBSET (1..n) : Status(c, l, n, r)
    \/ \E e, u, a, c, r \in BOOLEAN : Install(e, u, a, c, r)
    \/ RemoveStop
    \/ \E a1, a2 \in BOOLEAN : RemoveFiles(a1, a2)
    \/ \E a \in Bools(Len(EnableTags(op.tags))) : Enable(a)
    \/ \E a \in Bools(Len(DisableTargets(op.tags))) : Disable(a)
    \/ \E v \in JobResults : Deliver(v)

Next ==
    \/ \E fr \in Frames : Call(fr)
    \/ Operations

Spec == Init /\ [][Next]_vars

\* The operations that work on the file system, on every file system
FsFrames == {fr \in Frames : fr.f \in {"Install", "Remove", "Enable", "Disable"}}

FsNext ==
    \/ \E fr \in FsFrames : Call(fr)
    \/ \E e, u, a, c, r \in BOOLEAN : Install(e, u, a, c, r)
    \/ RemoveStop
    \/ \E ok \in BOOLEAN : StopConnect(ok)
    \/ \E c, l \in BOOLEAN, n \in 0..MaxUnits : StopAllStatus(c, l, n)
    \/ \E ok \in BOOLEAN : StopAllCall(ok)
    \/ StopAllRecv
    \/ StopReturn
    \/ \E a1, a2 \in BOOLEAN : RemoveFiles(a1, a2)
    \/ \E a \in Bools(Len(EnableTags(op.tags))) : Enable(a)
    \/ \E a \in Bools(Len(DisableTargets(op.tags))) : Disable(a)
    \/ \E v \in JobResults : Deliver(v)

FsSpec == FsInit /\ [][FsNext]_vars

\* The operations as the cobra verbs run them
CliNext ==
    \/ \E v \in Verbs, u, g \in Ids, k \in BOOLEAN : Command(v, u, g, k)
    \/ PersistentPreRunE
    \/ \E m \in BOOLEAN : installCmd(m)
    \/ removeCmd
    \/ \E n \in 0..MaxNum, t \in TagLists : startCmd(n, t)
    \/ \E a \in BOOLEAN, t \in TagLists : stopCmd(a, t)
    \/ \E t \in TagLists : enableCmd(t)
    \/ \E t \in TagLists : disableCmd(t)
    \/ \E a \in BOOLEAN, t \in TagLists : restartCmd(a, t)
    \/ \E a \in BOOLEAN, t \in TagLists : killCmd(a, t)
    \/ \E a \in BOOLEAN, t \in TagLists : reloadCmd(a, t)
    \/ statusCmd
    \/ \E m, t, e, u \in BOOLEAN : unitCmd(m, t, e, u)
    \/ Operations

CliSpec == Init /\ [][CliNext]_vars

\* ------------------------------------------------------------------ claims
Done == pc = "done"
\* the operation the caller asked for (Stop may run on behalf of Remove)
TopF == IF caller = "Remove" THEN "Remove" ELSE op.f
ConnectFailed == \E k \in 1..Len(trace) : IsConnect(trace[k]) /\ ~trace[k].ok
\* a manager call, or a file-system call that changed something
IsEffect(e) == IsCall(e) \/ (IsFs(e) /\ e.a \in {"WriteFile", "Remove", "Symlink"} /\ e.ok)
Effects(t) == SelectSeq(t, IsEffect)
ConnectedFirst ==
    \A k \in 1..Len(trace) :
        IsEffect(trace[k]) => \E j \in 1..(k - 1) : IsConnect(trace[j]) /\ trace[j].ok
IsRemoveOf(e, p) == IsFs(e) /\ e.a = "Remove" /\ e.b = p
IsSymlink(e) == IsFs(e) /\ e.a = "Symlink"
IsMadeSymlink(e) == IsSymlink(e) /\ e.ok
JobMethods == {"StartUnit", "StopUnit", "RestartUnit", "ReloadOrRestartUnit"}
IsJobCall(e) == IsCall(e) /\ e.a \in JobMethods
IsRejected(e) == IsJobCall(e) /\ ~e.ok
ListingFailed == \E k \in 1..Len(trace) : IsCall(trace[k]) /\ trace[k].a = "ListUnitsByPatterns" /\ ~trace[k].ok
InTags == ~op.flag /\ op.num <= 0 /\ Len(op.tags) > 0
InBare == ~op.flag /\ op.num <= 0 /\ Len(op.tags) = 0
RecvPcs == {"Start_num_recv", "Start_tags_recv", "Start_bare_recv",
            "Stop_all_recv", "Stop_tags_recv", "Stop_bare_recv",
            "Restart_all_recv", "Restart_tags_recv", "Restart_bare_recv",
            "Reload_all_recv", "Reload_tags_recv", "Reload_bare_recv"}
\* position of the last job call before position k of the trace, 0 when there is none
LastJobCall(t, k) ==
    LET S == {j \in 1..(k - 1) : IsJobCall(t[j])}
    IN IF S = {} THEN 0 ELSE CHOOSE j \in S : \A m \in S : m <= j

\* C1 as stated: in every operation the connection comes before any other effect,
\* and a failed connection attempt means the operation returns the connection error
\* having written, deleted and linked nothing and having called the manager never.
C1_ConnectionFirstInEveryOperation ==
    /\ ConnectedFirst
    /\ ConnectFailed => Effects(trace) = <<>> /\ (Done => ret = "ErrConnect")

\* C1 amended: Start, Stop, Kill, Restart, Reload and Status connect before any
\* other effect and a failed connection makes them return the connection error with
\* no effect at all.  Install returns the connection error too, but after it has
\* written the unit file; Remove never returns the connection error of its stop-all
\* and still attempts both deletions; Enable and Disable never connect.
C1_ConnectionFirstInManagerOperations ==
    /\ TopF \in {"Start", "Stop", "Kill", "Restart", "Reload", "Status"} =>
          /\ ConnectedFirst
          /\ ConnectFailed => Effects(trace) = <<>> /\ Done /\ ret = "ErrConnect"
    /\ TopF = "Install" =>
          /\ \A k \in 1..Len(trace) :
                IsCall(trace[k]) => \E j \in 1..(k - 1) : IsConnect(trace[j]) /\ trace[j].ok
          /\ ConnectFailed =>
                /\ Done /\ ret = "ErrConnect"
                /\ Effects(trace) = <<EvFs("WriteFile", UnitFile(op.flag), "", TRUE)>>
                /\ fs[UnitFile(op.flag)] = "file"
    /\ TopF = "Remove" /\ Done =>
          /\ ret \in {"nil", "remove failed"}
          /\ \E j, k \in 1..Len(trace) :
                /\ j < k
                /\ IsRemoveOf(trace[j], "/etc/systemd/system/svc.service")
                /\ IsRemoveOf(trace[k], "/etc/systemd/system/svc@.service")
    /\ TopF \in {"Enable", "Disable"} => Connects(trace) = <<>>

\* Install has returned the connection error and the unit file it wrote is there
C1_Witness ==
    /\ Done /\ op.f = "Install" /\ ret = "ErrConnect"
    /\ ConnectFailed
    /\ fs[UnitFile(op.flag)] = "file"

\* C2: a verb run by a user with neither uid 0 nor gid 0 ends in "root privileges
\* required" and its body never starts (no operation frame, nothing done); and
\* whenever a body runs under cobra, the privilege check has passed before.
C2_PrivilegeCheckBeforeBody ==
    /\ (cli.verb # "" /\ cli.known /\ cli.uid # "0" /\ cli.gid # "0") =>
          /\ pc \in {"PersistentPreRunE", "done"}
          /\ op = NoOp
          /\ trace = <<>>
          /\ Done => ret = "root privileges required"
    /\ (cli.verb # "" /\ (op # NoOp \/ pc = "RunE")) => (cli.known /\ (cli.uid = "0" \/ cli.gid = "0"))

C2_Witness ==
    /\ Done /\ cli.verb = "install" /\ cli.uid = "1000" /\ cli.gid = "1000"
    /\ ret = "root privileges required"

\* C3: Start with num > 0 calls StartUnit for name@1.service .. name@num.service in
\* that order and for nothing else, whatever the calls answer and whatever the tags;
\* once it has connected it returns nil after exactly num calls.
NumberedUnits == <<"svc@1.service", "svc@2.service", "svc@3.service", "svc@4.service",
                   "svc@5.service", "svc@6.service">>
C3_StartNumCallsInOrder ==
    (op.f = "Start" /\ op.num > 0) =>
        /\ Len(Calls(trace)) <= op.num
        /\ \A k \in 1..Len(Calls(trace)) :
              Calls(trace)[k].a = "StartUnit" /\ Calls(trace)[k].b = NumberedUnits[k]
        /\ (Done /\ ~ConnectFailed) => (Len(Calls(trace)) = op.num /\ ret = "nil")
        /\ (Done /\ ConnectFailed) => ret = "ErrConnect"

\* Start(3, tags...) has returned after a rejected call and a failed job
C3_Witness ==
    /\ Done /\ op.f = "Start" /\ op.num = 3 /\ Len(op.tags) > 0 /\ ret = "nil"
    /\ Len(Calls(trace)) = 3
    /\ \E k \in 1..Len(trace) : IsRejected(trace[k])
    /\ \E k \in 1..Len(trace) : IsRecv(trace[k]) /\ trace[k].a = "failed"

\* C4: Remove attempts both deletions, the single-instance path first, whether or
\* not the stop-all succeeded; it returns nil iff one of them succeeded and
\* "remove failed" otherwise.
C4_RemoveDeletesBoth ==
    (Done /\ op.f = "Remove") =>
        /\ Len(FsOps(trace)) = 2
        /\ IsRemoveOf(FsOps(trace)[1], "/etc/systemd/system/svc.service")
        /\ IsRemoveOf(FsOps(trace)[2], "/etc/systemd/system/svc@.service")
        /\ ret = "nil" <=> (FsOps(trace)[1].ok \/ FsOps(trace)[2].ok)
        /\ ret # "nil" => ret = "remove failed"
        /\ FsOps(trace)[1].ok => fs["/etc/systemd/system/svc.service"] = "absent"
        /\ FsOps(trace)[2].ok => fs["/etc/systemd/system/svc@.service"] = "absent"

\* Remove has returned nil after a stop-all that failed and one deletion that failed
C4_Witness ==
    /\ Done /\ op.f = "Remove" /\ ret = "nil"
    /\ ConnectFailed
    /\ ~FsOps(trace)[1].ok /\ FsOps(trace)[2].ok

Symlinks(t) == SelectSeq(t, IsSymlink)
MadeSymlinks(t) == SelectSeq(t, IsMadeSymlink)
DefaultLink ==
    EvFs("Symlink", "/etc/systemd/system/multi-user.target.wants/svc@default.service",
         "/etc/systemd/system/svc@.service", TRUE)
NotInstalled ==
    /\ ~fileExists(fs, "/etc/systemd/system/svc@.service")
    /\ ~fileExists(fs, "/etc/systemd/system/svc.service")

\* C5 as stated: Enable without tags, the templated unit file present, creates
\* exactly one symlink, <name>@default.service to the templated unit file, and
\* returns nil; "service is not installed", and no symlink, exactly when neither
\* unit file is there.
C5_EnableCreatesOneSymlink ==
    (Done /\ op.f = "Enable") =>
        /\ (op.tags = <<>> /\ fileExists(fs, "/etc/systemd/system/svc@.service")) =>
              (MadeSymlinks(trace) = <<DefaultLink>> /\ ret = "nil")
        /\ ret = "service is not installed" <=> NotInstalled
        /\ NotInstalled => Symlinks(trace) = <<>>

\* C5 amended: Enable without tags, the templated unit file present, makes exactly
\* one os.Symlink call, for <name>@default.service to the templated unit file, none
\* for the bare name, and returns nil whether or not the call succeeds (it fails,
\* for one, when the link is already there; the failure is logged); after a
\* successful call the link is there.  "service is not installed", and no symlink
\* call, exactly when neither unit file is there.
C5_EnableAttemptsOneSymlink ==
    (Done /\ op.f = "Enable") =>
        /\ (op.tags = <<>> /\ fileExists(fs, "/etc/systemd/system/svc@.service")) =>
              /\ Len(Symlinks(trace)) = 1
              /\ Symlinks(trace)[1].b = DefaultLink.b
              /\ Symlinks(trace)[1].c = DefaultLink.c
              /\ Symlinks(trace)[1].ok => fs[DefaultLink.b] = DefaultLink.c
              /\ ~Symlinks(trace)[1].ok =>
                    \E k \in 1..Len(trace) : IsLog(trace[k]) /\ trace[k].a = "Error"
              /\ ret = "nil"
        /\ ret = "service is not installed" <=> NotInstalled
        /\ NotInstalled => Symlinks(trace) = <<>>

\* Enable without tags has returned nil, both unit files there, and its one
\* symlink call failed
C5_Witness ==
    /\ Done /\ op.f = "Enable" /\ op.tags = <<>> /\ ret = "nil"
    /\ fs["/etc/systemd/system/svc@.service"] = "file"
    /\ fs["/etc/systemd/system/svc.service"] = "file"
    /\ Len(Symlinks(trace)) = 1 /\ ~Symlinks(trace)[1].ok

\* What Disable has done when it returns: only os.Remove calls, all in the wants
\* directory, two without tags and one per tag otherwise; nil returned
DisableResult ==
    (Done /\ op.f = "Disable") =>
          /\ ret = "nil"
          /\ FsOps(trace) = SelectSeq(trace, LAMBDA e : e.k # "log")
          /\ \A k \in 1..Len(FsOps(trace)) :
                FsOps(trace)[k].a = "Remove" /\ FsOps(trace)[k].b \in WantsPaths \ UnitPaths
          /\ op.tags = <<>> =>
                /\ Len(FsOps(trace)) = 2
                /\ FsOps(trace)[1].b = "/etc/systemd/system/multi-user.target.wants/svc@default.service"
                /\ FsOps(trace)[2].b = "/etc/systemd/system/multi-user.target.wants/svc.service"
          /\ op.tags # <<>> =>
                /\ Len(FsOps(trace)) = Len(op.tags)
                /\ \A k \in 1..Len(op.tags) :
                      FsOps(trace)[k].b = "/etc/systemd/system/multi-user.target.wants/svc@"
                                          \o op.tags[k] \o ".service"

\* C6: Disable without tags makes exactly two os.Remove calls, <name>@default.service
\* then <name>.service in the wants directory, whatever is there and whatever the
\* first call answers; with tags one call per tag; it always returns nil, and no
\* call of Disable names a path outside the wants directory: a step of Disable
\* leaves both unit files as they were.
C6_DisableRemovesTwoLinks ==
    /\ []DisableResult
    /\ [][pc = "Disable" => \A p \in UnitPaths : fs'[p] = fs[p]]_vars

\* Disable without tags has returned after a first removal that failed and a second
\* that succeeded, both unit files still there
C6_Witness ==
    /\ Done /\ op.f = "Disable" /\ op.tags = <<>> /\ ret = "nil"
    /\ Len(FsOps(trace)) = 2 /\ ~FsOps(trace)[1].ok /\ FsOps(trace)[2].ok
    /\ fs["/etc/systemd/system/svc@.service"] = "file"
    /\ fs["/etc/systemd/system/svc.service"] = "file"

IsReloadReject(e) == IsCall(e) /\ e.a = "ReloadOrRestartUnit" /\ ~e.ok
WarnFollows(k) == k < Len(trace) /\ IsLog(trace[k + 1]) /\ trace[k + 1].a = "Warn"
ReloadAllAborts ==
    op.flag => \A k \in 1..Len(trace) :
                  IsReloadReject(trace[k]) => (k = Len(trace) /\ Done /\ ret = "ErrCall")

\* C7 as stated: in Reload a rejected call is logged as a warning and not returned
\* in the tag-list branch and in the branch without tags and without "all"; in the
\* "all" branch the first rejected call ends Reload with that error and no further
\* call.
C7_ReloadErrorsLoggedOutsideAll ==
    (op.f = "Reload") =>
        /\ ~op.flag =>
              /\ \A k \in 1..Len(trace) : IsReloadReject(trace[k]) => WarnFollows(k)
              /\ ret # "ErrCall"
        /\ ReloadAllAborts

\* C7 amended: in the tag-list branch a rejected call is logged as a warning and not
\* returned.  In the branch without tags and without "all" the rejection of the
\* bare-name call is not logged: it is followed by a call for <name>@default.service,
\* and when that call is rejected too Reload returns its error, without a log line.
\* In the "all" branch the first rejected call ends Reload with that error and no
\* further call.
C7_ReloadErrorsLoggedInTagsOnly ==
    (op.f = "Reload") =>
        /\ InTags =>
              /\ \A k \in 1..Len(trace) : IsReloadReject(trace[k]) => WarnFollows(k)
              /\ ret # "ErrCall"
        /\ InBare =>
              /\ \A k \in 1..Len(trace) :
                    (IsReloadReject(trace[k]) /\ trace[k].b = "svc.service") =>
                        /\ k < Len(trace)
                        /\ IsCall(trace[k + 1])
                        /\ trace[k + 1].a = "ReloadOrRestartUnit"
                        /\ trace[k + 1].b = "svc@default.service"
              /\ \A k \in 1..Len(trace) :
                    (IsReloadReject(trace[k]) /\ trace[k].b = "svc@default.service") =>
                        (k = Len(trace) /\ Done /\ ret = "ErrCall")
              /\ \A k \in 1..Len(trace) : ~(IsLog(trace[k]) /\ trace[k].a = "Warn")
              /\ ret = "ErrCall" =>
                    \E k \in 1..Len(trace) : IsReloadReject(trace[k]) /\ trace[k].b = "svc@default.service"
        /\ ReloadAllAborts

\* Reload(true) has returned the error of its first call, with two units listed
C7_Witness ==
    /\ Done /\ op.f = "Reload" /\ op.flag /\ ret = "ErrCall"
    /\ Len(items) = 2
    /\ Len(SelectSeq(trace, IsJobCall)) = 1

BothBareRejected ==
    /\ Len(SelectSeq(trace, IsJobCall)) = 2
    /\ \A k \in 1..Len(trace) : IsJobCall(trace[k]) => ~trace[k].ok

\* C8 as stated: once the connection and, for "all", the listing have succeeded,
\* Start, Stop, Restart and Kill return nil whatever the units answer, in all three
\* branches.
C8_NeverPropagatesUnitError ==
    (Done /\ op.f \in {"Start", "Stop", "Restart", "Kill"} /\ ~ConnectFailed /\ ~ListingFailed)
        => ret = "nil"

\* C8 amended: once the connection and, for "all", the listing have succeeded, Kill
\* returns nil in every branch and Start, Stop and Restart return nil in the
\* count/all branch and in the tag-list branch whatever the units answer; in the
\* bare-name branch Start, Stop and Restart return nil unless both the call for the
\* bare name and the call for the @default instance are rejected, and then they
\* return the error of the second call.
C8_PropagatesOnlyBareFallbackError ==
    (Done /\ op.f \in {"Start", "Stop", "Restart", "Kill"} /\ ~ConnectFailed /\ ~ListingFailed) =>
        /\ (op.f = "Kill" \/ ~InBare) => ret = "nil"
        /\ (op.f # "Kill" /\ InBare) =>
              /\ ret \in {"nil", "ErrCall"}
              /\ ret = "ErrCall" <=> BothBareRejected

\* Stop() has returned the error of the @default call after two rejections
C8_Witness ==
    /\ Done /\ op.f = "Stop" /\ InBare /\ ~ConnectFailed
    /\ ret = "ErrCall" /\ BothBareRejected

\* C9: in Start, Stop, Restart and Reload at most one job is outstanding and the
\* channel holds at most one value; a pending job or a value in the channel is that
\* of the call issued last; a call is issued only when the call before it was
\* rejected or its notification has been received; every value received is that of
\* the call issued last.
C9_CallsAreSequential ==
    (op.f \in {"Start", "Stop", "Restart", "Reload"}) =>
        /\ Len(recv) <= 1
        /\ Cardinality(jobs) + Len(recv) <= 1
        /\ \A id \in jobs \cup {recv[k].id : k \in 1..Len(recv)} :
              id = LastJobCall(trace, Len(trace) + 1) /\ trace[id].ok
        /\ \A k \in 1..Len(trace) :
              /\ IsRecv(trace[k]) => trace[k].id = LastJobCall(trace, k)
              /\ (IsJobCall(trace[k]) /\ LastJobCall(trace, k) # 0) =>
                    \/ ~trace[LastJobCall(trace, k)].ok
                    \/ \E m \in (LastJobCall(trace, k) + 1)..(k - 1) :
                          IsRecv(trace[m]) /\ trace[m].id = LastJobCall(trace, k)

\* Restart(true) has gone through two units, both accepted and both reported
C9_Witness ==
    /\ Done /\ op.f = "Restart" /\ op.flag /\ Len(items) = 2
    /\ Len(SelectSeq(trace, IsRecv)) = 2

\* C10: an operation never waits for the completion notification of a call that was
\* rejected: wherever it stands at a receive, the call it issued last was accepted.
C10_NeverWaitsAfterRejectedCall ==
    pc \in RecvPcs =>
        /\ LastJobCall(trace, Len(trace) + 1) # 0
        /\ trace[LastJobCall(trace, Len(trace) + 1)].ok
====
